---------------------------- MODULE Spec2Model ----------------------------
(***************************************************************************)
(* Model of the Safety Score engine (src/score-code/safety_score.py).      *)
(*                                                                         *)
(* Every Python float is modelled as a fixed-point number: an integer      *)
(* count of 1/Scale (one millionth).  The arithmetic has a finite          *)
(* resolution, as float arithmetic has: products are rounded, m ** v for a *)
(* very small v is exactly 1.0, and the order of a chain of                *)
(* multiplications changes its last digits.                                *)
(***************************************************************************)
EXTENDS Integers, Sequences, FiniteSets

VARIABLES factors, scores, weights, call, ret

vars == <<factors, scores, weights, call, ret>>

---------------------------------------------------------------------------
(* Fixed-point arithmetic standing for Python's float operations.          *)

Scale == 10^6

Radix == 10^3

Abs(x) == IF x < 0 THEN -x ELSE x

Sign(x) == IF x < 0 THEN -1 ELSE 1

Min(a, b) == IF a <= b THEN a ELSE b

Max(a, b) == IF a >= b THEN a ELSE b

\* (a * b) \div Scale for 0 <= a, b < Scale, without leaving 32 bits.
MulFrac(a, b) ==
    LET a1 == a \div Radix
        a0 == a % Radix
        b1 == b \div Radix
        b0 == b % Radix
    IN  a1 * b1 + ((a1 * b0 + a0 * b1 + ((a0 * b0) \div Radix)) \div Radix)

\* (a * b) \div Scale for a, b >= 0.
MulNat(a, b) ==
    LET ah == a \div Scale
        al == a % Scale
        bh == b \div Scale
        bl == b % Scale
    IN  ah * bh * Scale + ah * bl + al * bh + MulFrac(al, bl)

\* The float product a * b, rounded toward zero.
FMul(a, b) == Sign(a) * Sign(b) * MulNat(Abs(a), Abs(b))

\* The quotient (a * 100^n) \div b by long division, for 0 <= a < b.
RECURSIVE LongDiv(_, _, _)
LongDiv(a, b, n) ==
    IF n = 0 THEN 0
    ELSE LET t == a * 100
         IN  (t \div b) * 100^(n - 1) + LongDiv(t % b, b, n - 1)

\* The float quotient a / b for 0 <= a, 0 < b.
DivNat(a, b) == (a \div b) * Scale + LongDiv(a % b, b, 3)

\* The float quotient a / b for b # 0, rounded toward zero.
FDiv(a, b) == Sign(a) * Sign(b) * DivNat(Abs(a), Abs(b))

\* Sum of the odd-power series z + z^3/3 + z^5/5 + ... from the term z^k/k on,
\* where p = z^k and zz = z^2.
RECURSIVE AtanhSeries(_, _, _)
AtanhSeries(p, zz, k) ==
    IF p \div k = 0 THEN 0
    ELSE (p \div k) + AtanhSeries(FMul(p, zz), zz, k + 2)

\* Natural logarithm of m >= 1.0:  ln m = 2 atanh((m - 1) / (m + 1)).
Ln(m) ==
    LET z == DivNat(m - Scale, m + Scale)
    IN  2 * AtanhSeries(z, FMul(z, z), 1)

\* Sum of the series 1 + x + x^2/2! + ... from the term t = x^k/k! on.
RECURSIVE ExpSeries(_, _, _)
ExpSeries(t, x, k) ==
    IF t = 0 THEN 0
    ELSE t + ExpSeries(FMul(t, x) \div (k + 1), x, k + 1)

\* e^x for x >= 0.
Exp(x) == ExpSeries(Scale, x, 0)



---------------------------------------------------------------------------
(* Constants of safety_score.py, to six decimals.                          *)

BASE_PCF == 571982

BASE_SAFETY_SCORE_INTERCEPT == 122152404

BASE_SAFETY_SCORE_SLOPE == -38729204

LEGACY_INTERCEPT == 123502303

LEGACY_UNSAFE_FOLLOWING == 21800000

PercentageKeys ==
    {"hard_braking", "aggressive_turning", "unsafe_following",
     "excessive_speeding", "late_night_driving", "unbuckled_driving"}

CAPS ==
    [hard_braking |-> 5200000,
     aggressive_turning |-> 13200000,
     unsafe_following |-> 63200000,
     excessive_speeding |-> 10000000,
     late_night_driving |-> 14200000,
     unbuckled_driving |-> 31700000]

MULTIPLIERS ==
    [hard_braking |-> 1235991,
     aggressive_turning |-> 1012193,
     unsafe_following |-> 1002719,
     forced_autopilot_disengagement |-> 1323434,
     late_night_driving |-> 1032318,
     excessive_speeding |-> 1024395,
     unbuckled_driving |-> 1011512]

\* The natural logarithms of the multipliers.
LN_MULTIPLIERS == [k \in DOMAIN MULTIPLIERS |-> Ln(MULTIPLIERS[k])]

\* Python's MULTIPLIERS[key] ** v for a float exponent v >= 0, computed as
\* exp(v * ln m).
Pow(key, v) == Exp(FMul(v, LN_MULTIPLIERS[key]))

\* Variant of FACTOR_ORDER with a slip: the order in which compute_pcf
\* multiplies.
FACTOR_ORDER_of_compute_pcf ==
    << <<"hard_braking", "Hard Braking">>,
       <<"aggressive_turning", "Aggressive Turning">>,
       <<"unsafe_following", "Unsafe Following">>,
       <<"forced_autopilot_disengagement", "Forced ADAS Disengagement">>,
       <<"late_night_driving", "Late-Night Driving">>,
       <<"excessive_speeding", "Excessive Speeding">>,
       <<"unbuckled_driving", "Unbuckled Driving">> >>

FACTOR_ORDER ==
    << <<"hard_braking", "Hard Braking">>,
       <<"aggressive_turning", "Aggressive Turning">>,
       <<"unsafe_following", "Unsafe Following">>,
       <<"excessive_speeding", "Excessive Speeding">>,
       <<"late_night_driving", "Late-Night Driving">>,
       <<"unbuckled_driving", "Unbuckled Driving">>,
       <<"forced_autopilot_disengagement", "Forced ADAS Disengagement">> >>

---------------------------------------------------------------------------
(* A call either returns a value or raises ValueError.                     *)

Return(v) == [raised |-> FALSE, value |-> v]

Raise == [raised |-> TRUE, value |-> "ValueError"]

\* Variants of _normalize_percentage with a slip: no cut to the cap; a
\* percent-to-fraction conversion; a value above the cap rejected.
_normalize_percentage_uncapped(value, cap) ==
    IF value < 0 THEN Raise ELSE Return(value)

_normalize_percentage_fraction(value, cap) ==
    IF value < 0 THEN Raise ELSE Return(Min(value, cap) \div 100)

_normalize_percentage_strict(value, cap) ==
    IF value < 0 \/ value > cap THEN Raise ELSE Return(value)

\* _normalize_percentage: a negative value raises, any other is cut to cap.
_normalize_percentage(value, cap) ==
    IF value < 0 THEN Raise ELSE Return(Min(value, cap))

\* Variant of the flag coercion with a slip: a range check in place of the
\* truth test.
TruthyClamped(flag) == Max(0, Min(1, flag))

\* The coercion  1 if flag else 0  of normalize.
Truthy(flag) == IF flag # 0 THEN 1 ELSE 0

\* SafetyFactors.normalize: a new instance, or the first error raised while
\* building it.
normalize(self) ==
    IF \E k \in PercentageKeys : _normalize_percentage(self[k], CAPS[k]).raised
    THEN Raise
    ELSE Return(
        [hard_braking |->
            _normalize_percentage(self.hard_braking, CAPS.hard_braking).value,
         aggressive_turning |->
            _normalize_percentage(self.aggressive_turning,
                                  CAPS.aggressive_turning).value,
         unsafe_following |->
            _normalize_percentage(self.unsafe_following,
                                  CAPS.unsafe_following).value,
         excessive_speeding |->
            _normalize_percentage(self.excessive_speeding,
                                  CAPS.excessive_speeding).value,
         late_night_driving |->
            _normalize_percentage(self.late_night_driving,
                                  CAPS.late_night_driving).value,
         unbuckled_driving |->
            _normalize_percentage(self.unbuckled_driving,
                                  CAPS.unbuckled_driving).value,
         forced_autopilot_disengagement |->
            Truthy(self.forced_autopilot_disengagement),
         autopilot_hw_two_or_newer |-> self.autopilot_hw_two_or_newer])

\* Variant of the step with a slip:  pcf /= MULTIPLIERS[key] ** v.
AccumulateDividing(pcf, key, v) == DivNat(pcf, Pow(key, v))

\* One step of the chain:  pcf *= MULTIPLIERS[key] ** v.
Accumulate(pcf, key, v) == FMul(pcf, Pow(key, v))

\* Variant with a slip: legacy hardware gets no unsafe-following multiplier.
EffectiveUnsafeFollowingCurrentOnly(normalized) ==
    IF normalized.autopilot_hw_two_or_newer
    THEN normalized.unsafe_following
    ELSE 0

\* Variant with a slip: the hardware flag is not consulted.
EffectiveUnsafeFollowingAnyHardware(normalized) ==
    normalized.unsafe_following

\* The unsafe-following percentage compute_pcf applies: the caller's on
\* current hardware, the legacy constant otherwise.
EffectiveUnsafeFollowing(normalized) ==
    IF normalized.autopilot_hw_two_or_newer
    THEN normalized.unsafe_following
    ELSE _normalize_percentage(LEGACY_UNSAFE_FOLLOWING,
                               CAPS.unsafe_following).value

\* The body of compute_pcf after normalization: the chain of products, in the
\* order of the source.
PcfOf(normalized) ==
    LET p0 == BASE_PCF
        p1 == Accumulate(p0, "hard_braking", normalized.hard_braking)
        p2 == Accumulate(p1, "aggressive_turning",
                         normalized.aggressive_turning)
        unsafe_following == EffectiveUnsafeFollowing(normalized)
        p3 == Accumulate(p2, "unsafe_following", unsafe_following)
        p4 == Accumulate(p3, "forced_autopilot_disengagement",
                         normalized.forced_autopilot_disengagement * Scale)
        p5 == Accumulate(p4, "late_night_driving",
                         normalized.late_night_driving)
        p6 == Accumulate(p5, "excessive_speeding",
                         normalized.excessive_speeding)
        p7 == Accumulate(p6, "unbuckled_driving",
                         normalized.unbuckled_driving)
    IN  p7

\* Variant of compute_pcf with a slip: the chain reads the caller's instance
\* instead of the normalized one.
compute_pcf_raw(f) ==
    LET normalized == normalize(f)
    IN  IF normalized.raised THEN Raise ELSE Return(PcfOf(f))

\* Variant of compute_pcf with a slip: the legacy override is applied to the
\* caller's instance before it is normalized.
compute_pcf_override_first(f) ==
    LET overridden ==
            IF f.autopilot_hw_two_or_newer THEN f
            ELSE [f EXCEPT !.unsafe_following = LEGACY_UNSAFE_FOLLOWING]
        normalized == normalize(overridden)
    IN  IF normalized.raised THEN Raise ELSE Return(PcfOf(normalized.value))

compute_pcf(f) ==
    LET normalized == normalize(f)
    IN  IF normalized.raised THEN Raise ELSE Return(PcfOf(normalized.value))

\* Variant of compute_safety_score with a slip: the lower clamp is missing.
compute_safety_score_unclamped(f) ==
    LET normalized == normalize(f)
        pcf == compute_pcf(f)
        intercept ==
            IF normalized.value.autopilot_hw_two_or_newer
            THEN BASE_SAFETY_SCORE_INTERCEPT
            ELSE LEGACY_INTERCEPT
        safety_score == intercept + FMul(BASE_SAFETY_SCORE_SLOPE, pcf.value)
    IN  IF normalized.raised THEN Raise
        ELSE Return(Min(100 * Scale, safety_score))

\* Variant of compute_safety_score with a slip: one intercept for every
\* hardware.
compute_safety_score_one_intercept(f) ==
    LET normalized == normalize(f)
        pcf == compute_pcf(f)
        intercept == BASE_SAFETY_SCORE_INTERCEPT
        safety_score == intercept + FMul(BASE_SAFETY_SCORE_SLOPE, pcf.value)
    IN  IF normalized.raised THEN Raise
        ELSE Return(Max(0, Min(100 * Scale, safety_score)))

compute_safety_score(f) ==
    LET normalized == normalize(f)
        pcf == compute_pcf(f)
        intercept ==
            IF normalized.value.autopilot_hw_two_or_newer
            THEN BASE_SAFETY_SCORE_INTERCEPT
            ELSE LEGACY_INTERCEPT
        safety_score == intercept + FMul(BASE_SAFETY_SCORE_SLOPE, pcf.value)
    IN  IF normalized.raised THEN Raise
        ELSE Return(Max(0, Min(100 * Scale, safety_score)))

\* sum(xs) of Python.
RECURSIVE Sum(_)
Sum(xs) == IF xs = << >> THEN 0 ELSE Head(xs) + Sum(Tail(xs))

\* sum(score * weight for score, weight in zip(scores, weights_list)).
RECURSIVE SumProducts(_, _)
SumProducts(ss, ws) ==
    IF ss = << >> \/ ws = << >> THEN 0
    ELSE FMul(Head(ss), Head(ws)) + SumProducts(Tail(ss), Tail(ws))

\* Variant of weighted_average with a slip: the test the error message
\* describes, a sum of weights that is not greater than zero.
weighted_average_positive(ss, ws) ==
    LET weights_list == ws
        total_weight == Sum(weights_list)
    IN  IF Len(ss) # Len(weights_list) THEN Raise
        ELSE IF total_weight <= 0 THEN Raise
        ELSE Return(FDiv(SumProducts(ss, weights_list), total_weight))

weighted_average(ss, ws) ==
    LET weights_list == ws
        total_weight == Sum(weights_list)
    IN  IF Len(ss) # Len(weights_list) THEN Raise
        ELSE IF total_weight = 0 THEN Raise
        ELSE Return(FDiv(SumProducts(ss, weights_list), total_weight))

\* Variant of _score_from_pcf with a slip: the hardware flag is not
\* consulted.
_score_from_pcf_one_intercept(pcf, autopilot_hw_two_or_newer) ==
    LET intercept == BASE_SAFETY_SCORE_INTERCEPT
    IN  Max(0, Min(100 * Scale, intercept + FMul(BASE_SAFETY_SCORE_SLOPE, pcf)))

_score_from_pcf(pcf, autopilot_hw_two_or_newer) ==
    LET intercept ==
            IF autopilot_hw_two_or_newer
            THEN BASE_SAFETY_SCORE_INTERCEPT
            ELSE LEGACY_INTERCEPT
    IN  Max(0, Min(100 * Scale, intercept + FMul(BASE_SAFETY_SCORE_SLOPE, pcf)))

\* Variant of _baseline_factors with a slip: the hardware flag is left at
\* its default.
_baseline_factors_default_hw(autopilot_hw_two_or_newer) ==
    [hard_braking |-> 0,
     aggressive_turning |-> 0,
     unsafe_following |-> 0,
     excessive_speeding |-> 0,
     late_night_driving |-> 0,
     forced_autopilot_disengagement |-> 0,
     unbuckled_driving |-> 0,
     autopilot_hw_two_or_newer |-> TRUE]

_baseline_factors(autopilot_hw_two_or_newer) ==
    [hard_braking |-> 0,
     aggressive_turning |-> 0,
     unsafe_following |-> 0,
     excessive_speeding |-> 0,
     late_night_driving |-> 0,
     forced_autopilot_disengagement |-> 0,
     unbuckled_driving |-> 0,
     autopilot_hw_two_or_newer |-> autopilot_hw_two_or_newer]

\* Variant of _get_factor_exponent with a slip: unsafe_following is zeroed
\* on every hardware.
_get_factor_exponent_no_following(f, key) ==
    IF key = "forced_autopilot_disengagement"
    THEN f.forced_autopilot_disengagement * Scale
    ELSE IF key = "unsafe_following"
    THEN 0
    ELSE f[key]

\* Variant of _get_factor_exponent with a slip: the hardware flag is not
\* consulted.
_get_factor_exponent_any_hardware(f, key) ==
    IF key = "forced_autopilot_disengagement"
    THEN f.forced_autopilot_disengagement * Scale
    ELSE f[key]

_get_factor_exponent(f, key) ==
    IF key = "forced_autopilot_disengagement"
    THEN f.forced_autopilot_disengagement * Scale
    ELSE IF key = "unsafe_following" /\ ~f.autopilot_hw_two_or_newer
    THEN 0
    ELSE f[key]

\* The threshold 1e-6 of the reconciliation step.  It is one unit of the
\* fixed-point resolution, so the rounding residue of a chain of products
\* passes it far more often here than with floats, whose residue is near
\* 1e-13.
Epsilon == Scale \div 10^6

RECURSIVE SumPenalty(_)
SumPenalty(segments) ==
    IF segments = << >> THEN 0
    ELSE segments[1].penalty + SumPenalty(Tail(segments))

\* Variant of the loop with a slip: a penalty of zero is not skipped.
RECURSIVE WalkKeepingZero(_, _, _, _, _)
WalkKeepingZero(normalized, i, pcf_running, score_running, segments) ==
    IF i > Len(FACTOR_ORDER) THEN segments
    ELSE
      LET key == FACTOR_ORDER[i][1]
          label == FACTOR_ORDER[i][2]
          exponent == _get_factor_exponent(normalized, key)
          previous_score == score_running
          pcf_next == Accumulate(pcf_running, key, exponent)
          score_next ==
              _score_from_pcf(pcf_next, normalized.autopilot_hw_two_or_newer)
          penalty == Max(0, previous_score - score_next)
      IN  IF exponent <= 0
          THEN WalkKeepingZero(normalized, i + 1, pcf_running, score_running,
                               segments)
          ELSE WalkKeepingZero(normalized, i + 1, pcf_next, score_next,
                               Append(segments,
                                      [key |-> key, label |-> label,
                                       penalty |-> penalty,
                                       value |-> exponent]))

\* The loop of score_breakdown over FACTOR_ORDER from position i on; the
\* result is the list of segments.
RECURSIVE Walk(_, _, _, _, _)
Walk(normalized, i, pcf_running, score_running, segments) ==
    IF i > Len(FACTOR_ORDER) THEN segments
    ELSE
      LET key == FACTOR_ORDER[i][1]
          label == FACTOR_ORDER[i][2]
          exponent == _get_factor_exponent(normalized, key)
          previous_score == score_running
          pcf_next == Accumulate(pcf_running, key, exponent)
          score_next ==
              _score_from_pcf(pcf_next, normalized.autopilot_hw_two_or_newer)
          penalty == Max(0, previous_score - score_next)
      IN  IF exponent <= 0
          THEN Walk(normalized, i + 1, pcf_running, score_running, segments)
          ELSE IF penalty <= 0
          THEN Walk(normalized, i + 1, pcf_next, score_next, segments)
          ELSE Walk(normalized, i + 1, pcf_next, score_next,
                    Append(segments,
                           [key |-> key, label |-> label,
                            penalty |-> penalty, value |-> exponent]))

\* Variant of the reconciliation step with a slip: the residual is dropped.
ReconcileDropped(segments, total_penalty) == segments

\* The reconciliation step: a residual above the threshold goes to the last
\* segment.
Reconcile(segments, total_penalty) ==
    IF segments = << >> THEN segments
    ELSE
      LET residual == total_penalty - SumPenalty(segments)
          n == Len(segments)
      IN  IF Abs(residual) > Epsilon
          THEN [segments EXCEPT ![n].penalty = @ + residual]
          ELSE segments

\* The body of score_breakdown after normalization.
BreakdownOf(normalized) ==
    LET hw == normalized.autopilot_hw_two_or_newer
        base_factors == _baseline_factors(hw)
        base_pcf == compute_pcf(base_factors).value
        current_pcf == compute_pcf(normalized).value
        base_score == _score_from_pcf(base_pcf, hw)
        current_score == _score_from_pcf(current_pcf, hw)
        walked == Walk(normalized, 1, base_pcf, base_score, << >>)
        total_penalty == Max(0, base_score - current_score)
    IN  [base_score |-> base_score,
         current_score |-> current_score,
         total_penalty |-> total_penalty,
         segments |-> Reconcile(walked, total_penalty)]

score_breakdown(f) ==
    LET normalized == normalize(f)
    IN  IF normalized.raised THEN Raise
        ELSE Return(BreakdownOf(normalized.value))

---------------------------------------------------------------------------
(* The inputs a caller may construct, and one call on each.                *)

\* How far below zero a raw percentage may lie, in millionths.
MaxNeg == 1

\* How far above its cap a raw percentage may lie, in whole percents.
MaxOver == 1

\* The largest raw percentage, in millionths, taken from just above zero.
MaxTiny == 1

\* The largest raw value of the forced-disengagement flag.
MaxFlag == 2

\* Raw values of percentage field k: negative ones, zero, values too small to
\* move the result, half the cap, the cap, and values above the cap.
RawValues(k) ==
    ((-MaxNeg) .. MaxTiny) \cup {CAPS[k] \div 2}
        \cup {CAPS[k] + i * Scale : i \in 0 .. MaxOver}

\* Raw values of forced_autopilot_disengagement (an int the engine tests for
\* truth).
RawFlags == (-1) .. MaxFlag

\* Factor sets with every percentage at zero or at its cap.
Corners ==
    [hard_braking : {0, CAPS.hard_braking},
     aggressive_turning : {0, CAPS.aggressive_turning},
     unsafe_following : {0, CAPS.unsafe_following},
     excessive_speeding : {0, CAPS.excessive_speeding},
     late_night_driving : {0, CAPS.late_night_driving},
     unbuckled_driving : {0, CAPS.unbuckled_driving}]

SafetyFactors(c, flag, hw) ==
    [hard_braking |-> c.hard_braking,
     aggressive_turning |-> c.aggressive_turning,
     unsafe_following |-> c.unsafe_following,
     excessive_speeding |-> c.excessive_speeding,
     late_night_driving |-> c.late_night_driving,
     forced_autopilot_disengagement |-> flag,
     unbuckled_driving |-> c.unbuckled_driving,
     autopilot_hw_two_or_newer |-> hw]

\* A caller constructs a SafetyFactors: a corner, with the flag 0 or 1, in
\* which one percentage or the flag is replaced by any raw value.
Init ==
    /\ \E c \in Corners, flag \in {0, 1}, hw \in BOOLEAN :
         \/ \E k \in PercentageKeys : \E v \in RawValues(k) :
                factors = SafetyFactors([c EXCEPT ![k] = v], flag, hw)
         \/ \E v \in RawFlags :
                factors = SafetyFactors(c, v, hw)
    /\ scores = << >>
    /\ weights = << >>
    /\ call = "new"
    /\ ret = Return("None")

Normalize ==
    /\ call = "new"
    /\ call' = "normalize"
    /\ ret' = normalize(factors)
    /\ UNCHANGED <<factors, scores, weights>>

\* normalize applied to the instance normalize returned.
NormalizeAgain ==
    /\ call = "normalize"
    /\ ~ret.raised
    /\ call' = "normalize_again"
    /\ ret' = normalize(ret.value)
    /\ UNCHANGED <<factors, scores, weights>>

ComputePcf ==
    /\ call = "new"
    /\ call' = "compute_pcf"
    /\ ret' = compute_pcf(factors)
    /\ UNCHANGED <<factors, scores, weights>>

ComputeSafetyScore ==
    /\ call = "new"
    /\ call' = "compute_safety_score"
    /\ ret' = compute_safety_score(factors)
    /\ UNCHANGED <<factors, scores, weights>>

ScoreBreakdown ==
    /\ call = "new"
    /\ call' = "score_breakdown"
    /\ ret' = score_breakdown(factors)
    /\ UNCHANGED <<factors, scores, weights>>

Next ==
    \/ Normalize
    \/ NormalizeAgain
    \/ ComputePcf
    \/ ComputeSafetyScore
    \/ ScoreBreakdown

Spec == Init /\ [][Next]_vars

\* The longest sequence of scores or of weights.
MaxLen == 2

\* Scores of driving periods: 0, 50 and 100.
ScoreValues == {0, 50 * Scale, 100 * Scale}

\* Weights (miles): negative, zero, a fraction, and whole numbers.
WeightValues == {-Scale, 0, Scale \div 2, Scale, 2 * Scale}

\* The sequences over S of length at most MaxLen.
SeqsUpTo(S) == UNION {[1 .. n -> S] : n \in 0 .. MaxLen}

\* A caller holds scores and weights to aggregate.
InitAverage ==
    /\ factors = _baseline_factors(TRUE)
    /\ scores \in SeqsUpTo(ScoreValues)
    /\ weights \in SeqsUpTo(WeightValues)
    /\ call = "new"
    /\ ret = Return("None")

WeightedAverage ==
    /\ call = "new"
    /\ call' = "weighted_average"
    /\ ret' = weighted_average(scores, weights)
    /\ UNCHANGED <<factors, scores, weights>>

NextAverage == WeightedAverage

SpecAverage == InitAverage /\ [][NextAverage]_vars

---------------------------------------------------------------------------
(* Properties.                                                             *)

\* Every percentage of f is non-negative.
Valid(f) == \A k \in PercentageKeys : f[k] >= 0

\* C1: for every factor set whose six percentages are non-negative,
\* compute_safety_score returns a score s with 0 <= s <= 100.
C1_ScoreInRange ==
    (call = "compute_safety_score" /\ Valid(factors))
        => /\ ~ret.raised
           /\ 0 <= ret.value
           /\ ret.value <= 100 * Scale

\* A valid input whose affine score lies below zero, returned as 0.
C1_Witness ==
    /\ call = "compute_safety_score"
    /\ Valid(factors)
    /\ ~ret.raised
    /\ ret.value = 0
    /\ ~factors.autopilot_hw_two_or_newer

\* C2: whenever normalize returns, each percentage of the result lies in
\* [0, cap], the forced-disengagement flag is 0 or 1, and the hardware flag
\* is the input's.
C2_NormalizedInRange ==
    (call = "normalize" /\ ~ret.raised)
        => /\ \A k \in PercentageKeys :
                0 <= ret.value[k] /\ ret.value[k] <= CAPS[k]
           /\ ret.value.forced_autopilot_disengagement \in {0, 1}
           /\ ret.value.autopilot_hw_two_or_newer
                = factors.autopilot_hw_two_or_newer

\* normalize returned, on legacy hardware, for an input above a cap.
C2_Witness ==
    /\ call = "normalize"
    /\ ~ret.raised
    /\ factors.unsafe_following > CAPS.unsafe_following
    /\ ret.value.unsafe_following = CAPS.unsafe_following
    /\ ~factors.autopilot_hw_two_or_newer

\* C3: normalize is idempotent: applied to its own result it returns, and
\* returns that same result.
C3_NormalizeIdempotent ==
    [][call' = "normalize_again" => ret' = ret]_vars

\* normalize was applied twice to an input the first application changed.
C3_Witness ==
    /\ call = "normalize_again"
    /\ ~ret.raised
    /\ ret.value # factors
    /\ \E k \in PercentageKeys : factors[k] > CAPS[k]

\* C4: normalize raises exactly when some raw percentage is negative; a
\* percentage above its cap does not raise and becomes the cap.
C4_RaisesIffNegative ==
    call = "normalize"
        => /\ ret.raised <=> (\E k \in PercentageKeys : factors[k] < 0)
           /\ ~ret.raised =>
                \A k \in PercentageKeys :
                    factors[k] > CAPS[k] => ret.value[k] = CAPS[k]

\* normalize raised on an input whose only negative field is hard_braking.
C4_Witness ==
    /\ call = "normalize"
    /\ ret.raised
    /\ factors.hard_braking < 0
    /\ \A k \in PercentageKeys \ {"hard_braking"} : factors[k] >= 0

\* C5: raising one percentage of a valid factor set, the others fixed, never
\* raises the score, whatever the hardware and forced-disengagement flags.
C5_Monotone ==
    (call = "compute_safety_score" /\ Valid(factors))
        => \A k \in PercentageKeys : \A v \in RawValues(k) :
              v > factors[k]
                => compute_safety_score([factors EXCEPT ![k] = v]).value
                      <= ret.value

\* A score strictly between 0 and 100 that a larger percentage lowers.
C5_Witness ==
    /\ call = "compute_safety_score"
    /\ Valid(factors)
    /\ ret.value > 0
    /\ \E k \in PercentageKeys : \E v \in RawValues(k) :
          /\ v > factors[k]
          /\ compute_safety_score([factors EXCEPT ![k] = v]).value < ret.value

\* C6: for a valid factor set, a percentage above its cap gives the same
\* compute_pcf and compute_safety_score as the cap itself.
C6_Capping ==
    \A k \in PercentageKeys :
        (Valid(factors) /\ factors[k] > CAPS[k])
            => /\ call = "compute_pcf"
                    => ret = compute_pcf([factors EXCEPT ![k] = CAPS[k]])
               /\ call = "compute_safety_score"
                    => ret = compute_safety_score(
                                [factors EXCEPT ![k] = CAPS[k]])

\* compute_pcf returned for a valid input with hard_braking above its cap.
C6_Witness ==
    /\ call = "compute_pcf"
    /\ ~ret.raised
    /\ factors.hard_braking > CAPS.hard_braking
    /\ ret.value > BASE_PCF

\* C7: on legacy hardware the supplied unsafe_following has no influence on
\* compute_pcf or compute_safety_score: every other valid value gives the
\* same result, and compute_pcf is what current hardware computes with
\* unsafe_following at the legacy constant.
C7_HardwareOverride ==
    (Valid(factors) /\ ~factors.autopilot_hw_two_or_newer)
        => /\ call = "compute_pcf" =>
                /\ \A v \in RawValues("unsafe_following") :
                      v >= 0 =>
                        compute_pcf([factors EXCEPT !.unsafe_following = v])
                            = ret
                /\ ret = compute_pcf(
                            [factors EXCEPT
                                !.unsafe_following = LEGACY_UNSAFE_FOLLOWING,
                                !.autopilot_hw_two_or_newer = TRUE])
           /\ call = "compute_safety_score" =>
                \A v \in RawValues("unsafe_following") :
                    v >= 0 =>
                      compute_safety_score(
                          [factors EXCEPT !.unsafe_following = v]) = ret

\* compute_pcf returned on legacy hardware for unsafe_following at its cap.
C7_Witness ==
    /\ call = "compute_pcf"
    /\ ~ret.raised
    /\ ~factors.autopilot_hw_two_or_newer
    /\ factors.unsafe_following = CAPS.unsafe_following

\* The percentage and flag factors of f that are positive.
Positive(f) ==
    {k \in PercentageKeys : f[k] > 0}
        \cup (IF f.forced_autopilot_disengagement # 0
              THEN {"forced_autopilot_disengagement"} ELSE {})

\* C8: for every valid input the penalties of the segments score_breakdown
\* returns sum to the returned total_penalty within 1e-6.
C8_Reconciliation ==
    (call = "score_breakdown" /\ Valid(factors))
        => /\ ~ret.raised
           /\ Abs(SumPenalty(ret.value.segments) - ret.value.total_penalty)
                <= Epsilon

\* A breakdown whose running score reached 0 before the walk ended: some
\* positive factors have no segment.
C8_Witness ==
    /\ call = "score_breakdown"
    /\ ~ret.raised
    /\ ret.value.current_score = 0
    /\ Len(ret.value.segments) >= 2
    /\ Len(ret.value.segments) < Cardinality(Positive(factors))

\* C9: with the six percentages and the forced-disengagement flag all zero,
\* score_breakdown returns total_penalty = 0 and no segment, on either
\* hardware.
C9_ZeroFactors ==
    (/\ call = "score_breakdown"
     /\ \A k \in PercentageKeys : factors[k] = 0
     /\ factors.forced_autopilot_disengagement = 0)
        => /\ ~ret.raised
           /\ ret.value.total_penalty = 0
           /\ ret.value.segments = << >>

\* The all-zero breakdown on legacy hardware.
C9_Witness ==
    /\ call = "score_breakdown"
    /\ ~ret.raised
    /\ Positive(factors) = {}
    /\ Valid(factors)
    /\ ~factors.autopilot_hw_two_or_newer
    /\ ret.value.base_score < 100 * Scale

\* The input has current hardware and exactly one positive factor.
SingleFactor(f) ==
    /\ f.autopilot_hw_two_or_newer
    /\ Valid(f)
    /\ Cardinality(Positive(f)) = 1

\* One segment, keyed by the input's positive factor, carrying the whole
\* difference of the scores.
OneSegment(f, b) ==
    /\ Len(b.segments) = 1
    /\ b.segments[1].key \in Positive(f)
    /\ b.segments[1].penalty = b.base_score - b.current_score

\* C10 as stated: on current hardware, an input with exactly one positive
\* factor yields exactly one segment, keyed by that factor, whose penalty is
\* base_score - current_score.
C10_SingleSegmentAlways ==
    (call = "score_breakdown" /\ SingleFactor(factors))
        => ~ret.raised /\ OneSegment(factors, ret.value)

\* C10, amended: on current hardware, an input with exactly one positive
\* factor yields exactly one such segment when the factor lowers the computed
\* score, and no segment when it is too small to change it.
C10_SingleSegment ==
    (call = "score_breakdown" /\ SingleFactor(factors))
        => /\ ~ret.raised
           /\ ret.value.current_score < ret.value.base_score
                => OneSegment(factors, ret.value)
           /\ ret.value.current_score >= ret.value.base_score
                => ret.value.segments = << >>

\* The stated scenario: hard_braking at its cap, everything else zero.
C10_Witness ==
    /\ call = "score_breakdown"
    /\ SingleFactor(factors)
    /\ factors.hard_braking = CAPS.hard_braking
    /\ OneSegment(factors, ret.value)
    /\ ret.value.segments[1].key = "hard_braking"
    /\ ret.value.segments[1].penalty > 0

\* The exponents the claimed product applies to input f: each percentage
\* cut to its cap, unsafe_following replaced by the legacy constant on
\* legacy hardware, and the flag as 0 or 1.
ClaimedExponent(f, key) ==
    IF key = "forced_autopilot_disengagement"
    THEN (IF f.forced_autopilot_disengagement = 0 THEN 0 ELSE Scale)
    ELSE IF key = "unsafe_following" /\ ~f.autopilot_hw_two_or_newer
    THEN LEGACY_UNSAFE_FOLLOWING
    ELSE IF f[key] > CAPS[key] THEN CAPS[key] ELSE f[key]

\* The factors of the claimed product, in the order compute_pcf multiplies
\* them.
ProductOrder ==
    <<"hard_braking", "aggressive_turning", "unsafe_following",
      "forced_autopilot_disengagement", "late_night_driving",
      "excessive_speeding", "unbuckled_driving">>

\* BASE_PCF times MULTIPLIERS[k] ** v_k over the first n factors.
RECURSIVE ClaimedProduct(_, _)
ClaimedProduct(f, n) ==
    IF n = 0 THEN BASE_PCF
    ELSE FMul(ClaimedProduct(f, n - 1),
              Pow(ProductOrder[n], ClaimedExponent(f, ProductOrder[n])))

\* C11: compute_pcf is BASE_PCF times MULTIPLIERS[k] ** v_k over the six
\* percentages and the flag, v_k the capped percentage (the legacy constant
\* for unsafe_following on legacy hardware) or the 0/1 flag; with only
\* hard_braking = 5.2 on current hardware it is BASE_PCF * M ** 5.2.
C11_PcfProduct ==
    (call = "compute_pcf" /\ Valid(factors))
        => /\ ~ret.raised
           /\ ret.value = ClaimedProduct(factors, Len(ProductOrder))
           /\ (/\ factors.autopilot_hw_two_or_newer
               /\ factors.hard_braking = CAPS.hard_braking
               /\ \A k \in PercentageKeys \ {"hard_braking"} : factors[k] = 0
               /\ factors.forced_autopilot_disengagement = 0)
                => ret.value = FMul(BASE_PCF,
                                    Pow("hard_braking", CAPS.hard_braking))

\* compute_pcf returned on legacy hardware for an input with the flag set,
\* hard_braking above its cap and a non-zero unsafe_following.
C11_Witness ==
    /\ call = "compute_pcf"
    /\ ~ret.raised
    /\ ~factors.autopilot_hw_two_or_newer
    /\ factors.forced_autopilot_disengagement = 1
    /\ factors.hard_braking > CAPS.hard_braking
    /\ factors.unsafe_following = CAPS.unsafe_following

\* C12: compute_safety_score is intercept + slope * compute_pcf clamped to
\* [0, 100], the intercept chosen by the hardware flag alone.
C12_AffineScore ==
    (call = "compute_safety_score" /\ Valid(factors))
        => LET intercept ==
                   IF factors.autopilot_hw_two_or_newer
                   THEN BASE_SAFETY_SCORE_INTERCEPT
                   ELSE LEGACY_INTERCEPT
               affine == intercept
                           + FMul(BASE_SAFETY_SCORE_SLOPE,
                                  compute_pcf(factors).value)
           IN  /\ ~ret.raised
               /\ affine < 0 => ret.value = 0
               /\ affine > 100 * Scale => ret.value = 100 * Scale
               /\ (0 <= affine /\ affine <= 100 * Scale)
                    => ret.value = affine

\* compute_safety_score returned an unclamped score on legacy hardware.
C12_Witness ==
    /\ call = "compute_safety_score"
    /\ ~ret.raised
    /\ ~factors.autopilot_hw_two_or_newer
    /\ ret.value > 0
    /\ ret.value < 99 * Scale
    /\ factors.late_night_driving = CAPS.late_night_driving

\* The sum of the first n elements of xs.
RECURSIVE PrefixSum(_, _)
PrefixSum(xs, n) == IF n = 0 THEN 0 ELSE PrefixSum(xs, n - 1) + xs[n]

\* The sum of score_i * weight_i over the first n positions.
RECURSIVE PrefixDot(_, _, _)
PrefixDot(ss, ws, n) ==
    IF n = 0 THEN 0 ELSE PrefixDot(ss, ws, n - 1) + FMul(ss[n], ws[n])

Supplied(f, key) ==
    IF key = "forced_autopilot_disengagement"
    THEN f.forced_autopilot_disengagement * Scale
    ELSE f[key]

\* C14: the value of each segment score_breakdown returns is the value the
\* caller supplied for that factor; for a raw hard_braking above its cap it
\* is the raw input.
C14_OriginalValue ==
    (call = "score_breakdown" /\ ~ret.raised)
        => \A i \in 1 .. Len(ret.value.segments) :
             ret.value.segments[i].value
                 = Supplied(factors, ret.value.segments[i].key)

\* A breakdown of a raw hard_braking above its cap whose hard_braking
\* segment carries the cap.
C14_Witness ==
    /\ call = "score_breakdown"
    /\ ~ret.raised
    /\ factors.hard_braking > CAPS.hard_braking
    /\ ret.value.segments # << >>
    /\ ret.value.segments[1].key = "hard_braking"
    /\ ret.value.segments[1].value = CAPS.hard_braking

\* The presentation order of the factors: hard braking, aggressive turning,
\* unsafe following, excessive speeding, late-night driving, unbuckled
\* driving, forced disengagement.
PresentationOrder ==
    <<"hard_braking", "aggressive_turning", "unsafe_following",
      "excessive_speeding", "late_night_driving", "unbuckled_driving",
      "forced_autopilot_disengagement">>

\* The place of key in the presentation order, 0 for a foreign key.
Place(key) ==
    IF \E i \in 1 .. Len(PresentationOrder) : PresentationOrder[i] = key
    THEN CHOOSE i \in 1 .. Len(PresentationOrder) : PresentationOrder[i] = key
    ELSE 0

\* C15: for every valid input the keys of the segments score_breakdown
\* returns are a subsequence of the presentation order: each key is one of
\* the seven, and the places of successive segments strictly increase, so no
\* key repeats.
C15_SegmentOrder ==
    (call = "score_breakdown" /\ Valid(factors))
        => /\ ~ret.raised
           /\ \A i \in 1 .. Len(ret.value.segments) :
                Place(ret.value.segments[i].key) > 0
           /\ \A i \in 1 .. Len(ret.value.segments) - 1 :
                Place(ret.value.segments[i].key)
                    < Place(ret.value.segments[i + 1].key)

\* A breakdown in which excessive speeding, late-night driving and the
\* forced disengagement all have a segment, with keys skipped in between.
C15_Witness ==
    /\ call = "score_breakdown"
    /\ ~ret.raised
    /\ Len(ret.value.segments) = 3
    /\ ret.value.segments[1].key = "excessive_speeding"
    /\ ret.value.segments[2].key = "late_night_driving"
    /\ ret.value.segments[3].key = "forced_autopilot_disengagement"

\* The PCF of a perfect driver on legacy hardware: the base PCF times the
\* unsafe-following multiplier raised to the legacy constant.
LegacyBasePcf ==
    FMul(BASE_PCF,
         Exp(FMul(LEGACY_UNSAFE_FOLLOWING, LN_MULTIPLIERS.unsafe_following)))

\* C16: on legacy hardware score_breakdown returns no segment keyed
\* unsafe_following whatever value is supplied; base_score is the score of
\* the base PCF with the legacy following constant applied, and base_score
\* and total_penalty are those of the same input with unsafe_following 0.
C16_LegacyFollowing ==
    (/\ call = "score_breakdown"
     /\ Valid(factors)
     /\ ~factors.autopilot_hw_two_or_newer)
        => LET zeroed ==
                   score_breakdown([factors EXCEPT !.unsafe_following = 0])
           IN  /\ ~ret.raised
               /\ \A i \in 1 .. Len(ret.value.segments) :
                    ret.value.segments[i].key # "unsafe_following"
               /\ ret.value.base_score
                    = Max(0, Min(100 * Scale,
                                 LEGACY_INTERCEPT
                                     + FMul(BASE_SAFETY_SCORE_SLOPE,
                                            LegacyBasePcf)))
               /\ ret.value.base_score = zeroed.value.base_score
               /\ ret.value.total_penalty = zeroed.value.total_penalty

\* A legacy breakdown of unsafe_following above its cap in which other
\* factors have segments.
C16_Witness ==
    /\ call = "score_breakdown"
    /\ ~ret.raised
    /\ ~factors.autopilot_hw_two_or_newer
    /\ factors.unsafe_following > CAPS.unsafe_following
    /\ Len(ret.value.segments) >= 2
    /\ ret.value.total_penalty > 0
    /\ ret.value.base_score < 100 * Scale

\* The running PCF after the first n factors of the presentation order have
\* been applied to the base PCF of normalized.
RECURSIVE RunningPcf(_, _)
RunningPcf(normalized, n) ==
    IF n = 0
    THEN compute_pcf(
             _baseline_factors(normalized.autopilot_hw_two_or_newer)).value
    ELSE Accumulate(RunningPcf(normalized, n - 1), PresentationOrder[n],
                    _get_factor_exponent(normalized, PresentationOrder[n]))

\* The drop of the running score caused by the n-th factor.
MarginalDrop(normalized, n) ==
    _score_from_pcf(RunningPcf(normalized, n - 1),
                    normalized.autopilot_hw_two_or_newer)
        - _score_from_pcf(RunningPcf(normalized, n),
                          normalized.autopilot_hw_two_or_newer)

\* C17: every segment score_breakdown returns has a penalty above 0, the
\* last one after reconciliation included, and a factor has a segment
\* exactly when its exponent is positive and its marginal score drop is
\* above 0.
C17_PositivePenalties ==
    (call = "score_breakdown" /\ Valid(factors))
        => /\ ~ret.raised
           /\ \A i \in 1 .. Len(ret.value.segments) :
                ret.value.segments[i].penalty > 0
           /\ \A n \in 1 .. Len(PresentationOrder) :
                (\E i \in 1 .. Len(ret.value.segments) :
                    ret.value.segments[i].key = PresentationOrder[n])
                  <=> /\ _get_factor_exponent(normalize(factors).value,
                                              PresentationOrder[n]) > 0
                      /\ MarginalDrop(normalize(factors).value, n) > 0

\* A breakdown whose running score is clamped at 0 before unbuckled driving,
\* supplied at its cap, is reached: it has no segment.
C17_Witness ==
    /\ call = "score_breakdown"
    /\ ~ret.raised
    /\ factors.unbuckled_driving = CAPS.unbuckled_driving
    /\ ret.value.current_score = 0
    /\ ret.value.segments # << >>
    /\ \A i \in 1 .. Len(ret.value.segments) :
         ret.value.segments[i].key # "unbuckled_driving"

\* C18: normalize turns a raw forced_autopilot_disengagement other than zero
\* (above 1 and negative included) into 1 and zero into 0, and raises only
\* for a negative percentage, whatever the flag.
C18_FlagTruthiness ==
    call = "normalize"
        => /\ ret.raised <=> ~Valid(factors)
           /\ ~ret.raised =>
                ret.value.forced_autopilot_disengagement
                    = (IF factors.forced_autopilot_disengagement = 0
                       THEN 0 ELSE 1)

\* normalize returned 1 for the raw flag -1.
C18_Witness ==
    /\ call = "normalize"
    /\ factors.forced_autopilot_disengagement < 0
    /\ ~ret.raised
    /\ ret.value.forced_autopilot_disengagement = 1

\* C19: compute_pcf, compute_safety_score and score_breakdown raise exactly
\* when normalize raises on the same input, that is, when some percentage is
\* negative; a negative unsafe_following on legacy hardware is such an input.
C19_RaisesAsNormalize ==
    call \in {"compute_pcf", "compute_safety_score", "score_breakdown"}
        => /\ ret.raised <=> normalize(factors).raised
           /\ ret.raised <=> \E k \in PercentageKeys : factors[k] < 0
           /\ (~factors.autopilot_hw_two_or_newer
                   /\ factors.unsafe_following < 0) => ret.raised

\* compute_pcf raised for a negative unsafe_following on legacy hardware.
C19_Witness ==
    /\ call = "compute_pcf"
    /\ ~factors.autopilot_hw_two_or_newer
    /\ factors.unsafe_following < 0
    /\ ret.raised

\* C20: for every valid input, current_score of score_breakdown is
\* compute_safety_score of the same factors, base_score is
\* compute_safety_score of the all-zero factors with the same hardware flag,
\* current_score <= base_score, and total_penalty = base_score -
\* current_score.
C20_BreakdownScores ==
    (call = "score_breakdown" /\ Valid(factors))
        => /\ ~ret.raised
           /\ ret.value.current_score = compute_safety_score(factors).value
           /\ ret.value.base_score
                = compute_safety_score(
                      [k \in DOMAIN factors |->
                          IF k = "autopilot_hw_two_or_newer"
                          THEN factors.autopilot_hw_two_or_newer
                          ELSE 0]).value
           /\ ret.value.current_score <= ret.value.base_score
           /\ ret.value.total_penalty
                = ret.value.base_score - ret.value.current_score

\* A legacy breakdown with a raw value above its cap whose score lies
\* strictly between 0 and the base score.
C20_Witness ==
    /\ call = "score_breakdown"
    /\ ~ret.raised
    /\ ~factors.autopilot_hw_two_or_newer
    /\ factors.aggressive_turning > CAPS.aggressive_turning
    /\ ret.value.current_score > 0
    /\ ret.value.total_penalty > 0

=============================================================================
